---- MODULE Spec2Model ----
(***************************************************************************)
(* Model of scripts/render_synthetic_chart.py: a straight-line script that *)
(* loads a JSON series, scales it to pixel coordinates and writes an SVG.  *)
(*                                                                         *)
(* Numbers.  Python computes the coordinates in binary floating point.     *)
(* The model computes them as exact fractions [n, d] in lowest terms and   *)
(* renders the ":.2f" conversions as an integer number of hundredths.      *)
(* For the integer inputs enumerated here the float result and the exact   *)
(* fraction round to the same two decimals (no fraction is closer to a     *)
(* rounding tie than float error: a tie needs a denominator divisible by   *)
(* 32), and the end points 0/r, r/r, 0/(n-1), (n-1)/(n-1) are exact in     *)
(* both.                                                                   *)
(***************************************************************************)
EXTENDS Integers, Sequences, FiniteSets, TLC

\* ---- bounds of the enumerated inputs ----
MaxLen == 3
MaxK == 2
ValueStep == 600

Labels == {"W1", "W2"}
Values == {k * ValueStep : k \in -1..MaxK}

\* ---- program constants (lines 14-17) ----
width == 900
height == 420
padding == 60
usable_width == width - 2 * padding
usable_height == height - 2 * padding
GridLines == 5

\* ---- exact fractions ----
RECURSIVE Gcd(_, _)
Gcd(a, b) == IF b = 0 THEN a ELSE Gcd(b, a % b)

Abs(a) == IF a < 0 THEN -a ELSE a

\* n / d with d # 0, in lowest terms with a positive denominator
Rat(n, d) ==
    LET g == Gcd(Abs(n), Abs(d))
        sign == IF d < 0 THEN -1 ELSE 1
    IN  [n |-> sign * (n \div g), d |-> sign * (d \div g)]

RatLeq(a, b) == a.n * b.d <= b.n * a.d
RatLess(a, b) == a.n * b.d < b.n * a.d
RatSubInt(a, c) == Rat(a.n - c * a.d, a.d)

\* f"{v:.2f}": the number of hundredths nearest to v, ties to even
Fmt2(v) ==
    LET s == 100 * v.n
        q == s \div v.d
        r == s % v.d
    IN  IF 2 * r > v.d THEN q + 1
        ELSE IF 2 * r < v.d THEN q
        ELSE IF q % 2 = 0 THEN q ELSE q + 1

\* f"{value:,.0f}" of an integer: sign and the groups of three digits
RECURSIVE Groups(_)
Groups(a) == IF a < 1000 THEN <<a>> ELSE Append(Groups(a \div 1000), a % 1000)

FmtThousands(value) == [neg |-> value < 0, groups |-> Groups(Abs(value))]

\* ---- the input file ----
\* a point is a JSON object that has some of the keys label, totalValue
PointObjects ==
    [label : Labels, totalValue : Values] \cup [label : Labels]
        \cup [totalValue : Values] \cup {<<>>}

RECURSIVE SeqsUpTo(_, _)
SeqsUpTo(S, len) ==
    IF len = 0 THEN {<<>>}
    ELSE LET shorter == SeqsUpTo(S, len - 1)
         IN  shorter \cup {Append(s, e) : s \in {t \in shorter : Len(t) = len - 1}, e \in S}

Payloads ==
    {[keys |-> {"points"}, points |-> s] : s \in SeqsUpTo(PointObjects, MaxLen)}
        \cup {[keys |-> {}, points |-> <<>>]}

Files ==
    {[status |-> "missing", payload |-> [keys |-> {}, points |-> <<>>]],
     [status |-> "garbled", payload |-> [keys |-> {}, points |-> <<>>]]}
        \cup {[status |-> "json", payload |-> p] : p \in Payloads}

\* ---- lines 19-21: min(), max(), "max_val - min_val or 1" ----
RECURSIVE MinOf(_)
MinOf(s) ==
    IF Len(s) = 1 THEN s[1]
    ELSE LET rest == MinOf(Tail(s)) IN IF rest < s[1] THEN rest ELSE s[1]

RECURSIVE MaxOf(_)
MaxOf(s) ==
    IF Len(s) = 1 THEN s[1]
    ELSE LET rest == MaxOf(Tail(s)) IN IF rest > s[1] THEN rest ELSE s[1]

\* variant: the minimum is not subtracted
ValRange_nomin(lo, hi) == IF hi # 0 THEN hi ELSE 1

ValRange(lo, hi) == IF hi - lo # 0 THEN hi - lo ELSE 1

\* variant: divides by the count instead of the count minus one
ScaleX_count(index, n) ==
    IF n > 1
    THEN Rat(padding * n + usable_width * index, n)
    ELSE Rat(2 * padding + usable_width, 2)

\* variant: the top padding is left out
ScaleY_nopad(value, lo, range) ==
    Rat(usable_height * (range - (value - lo)), range)

\* variant: the axis is not inverted
ScaleY_upright(value, lo, range) ==
    Rat(padding * range + usable_height * (value - lo), range)

\* variant: inserts at the front
CoordsAppend_front(cs, xy) == <<xy>> \o cs

\* ---- lines 25-26: one point's coordinates, index from 0 ----
ScaleX(index, n) ==
    IF n > 1
    THEN Rat(padding * (n - 1) + usable_width * index, n - 1)
    ELSE Rat(2 * padding + usable_width, 2)

ScaleY(value, lo, range) ==
    Rat(padding * range + usable_height * (range - (value - lo)), range)

\* line 27: coords.append((x, y))
CoordsAppend(cs, xy) == Append(cs, xy)

\* ---- line 30: 'M ' + ' L '.join(f"{x:.2f} {y:.2f}" for x, y in coords) ----
Cmd(c) == [kind |-> c, x |-> 0, y |-> 0]
Vertex(xy) == [kind |-> "pt", x |-> Fmt2(xy.x), y |-> Fmt2(xy.y)]

\* variant: a separator after every item, the last included
RECURSIVE Join_trailing(_, _)
Join_trailing(sep, items) ==
    IF Len(items) = 0 THEN <<>>
    ELSE <<items[1], sep>> \o Join_trailing(sep, Tail(items))

RECURSIVE Join(_, _)
Join(sep, items) ==
    IF Len(items) = 0 THEN <<>>
    ELSE IF Len(items) = 1 THEN <<items[1]>>
    ELSE <<items[1], sep>> \o Join(sep, Tail(items))

PathD(cs) ==
    <<Cmd("M")>> \o Join(Cmd("L"), [k \in 1..Len(cs) |-> Vertex(cs[k])])

\* ---- lines 33-37: the opening elements ----
SvgHeader ==
    <<[tag |-> "svg", width |-> width, height |-> height],
      [tag |-> "rect"],
      [tag |-> "g"]>>

\* variant: five intervals instead of four
GridY_fifths(j) == Rat(5 * padding + usable_height * j, 5)

\* ---- lines 40-41: one horizontal grid line ----
GridY(j) == Rat(4 * padding + usable_height * j, 4)

GridLine(j) ==
    [tag |-> "line", x1 |-> padding, y1 |-> Fmt2(GridY(j)),
     x2 |-> width - padding, y2 |-> Fmt2(GridY(j))]

\* ---- lines 46-48: the three elements of one marker ----
MarkerLines(xy, label, value) ==
    <<[tag |-> "circle", cx |-> Fmt2(xy.x), cy |-> Fmt2(xy.y)],
      [tag |-> "xlabel", x |-> Fmt2(xy.x),
       y |-> Fmt2(Rat(2 * height - padding, 2)), text |-> label],
      [tag |-> "vlabel", x |-> Fmt2(xy.x),
       y |-> Fmt2(RatSubInt(xy.y, 12)), text |-> FmtThousands(value)]>>

\* ---- lines 50-51: title and closing tag ----
SvgFooter ==
    <<[tag |-> "title", x |-> Rat(width, 2), y |-> Rat(padding, 2)],
      [tag |-> "/svg"]>>

VARIABLES
    file,       \* scripts/output/synthetic_trading_data.json
    pc,         \* the statement about to run
    payload, points, values, labels,
    min_val, max_val, val_range,
    coords, idx,
    path_d,
    svg_lines, i, m,
    output,     \* scripts/output/synthetic_chart.svg: <<>> absent, <<text>> written
    stdout,
    error       \* the uncaught exception, "" while there is none

vars == <<file, pc, payload, points, values, labels, min_val, max_val,
          val_range, coords, idx, path_d, svg_lines, i, m, output, stdout,
          error>>

Init ==
    /\ file \in Files
    /\ pc = "open"
    /\ payload = [keys |-> {}, points |-> <<>>]
    /\ points = <<>>
    /\ values = <<>>
    /\ labels = <<>>
    /\ min_val = 0
    /\ max_val = 0
    /\ val_range = 0
    /\ coords = <<>>
    /\ idx = 0
    /\ path_d = <<>>
    /\ svg_lines = <<>>
    /\ i = 0
    /\ m = 0
    /\ output = <<>>
    /\ stdout = <<>>
    /\ error = ""

\* variant: the exception is recorded and the script goes on to write
Raise_swallow(kind) ==
    /\ error' = kind
    /\ pc' = "write"

\* an exception nobody catches ends the program
Raise(kind) ==
    /\ error' = kind
    /\ pc' = "aborted"

\* ---- lines 7-12: load ----
OpenFile ==
    /\ pc = "open"
    /\ IF file.status = "missing"
       THEN Raise("FileNotFoundError")
       ELSE pc' = "load" /\ error' = error
    /\ UNCHANGED <<file, payload, points, values, labels, min_val, max_val,
                   val_range, coords, idx, path_d, svg_lines, i, m, output,
                   stdout>>

LoadJson ==
    /\ pc = "load"
    /\ IF file.status = "garbled"
       THEN Raise("JSONDecodeError") /\ payload' = payload
       ELSE pc' = "points" /\ error' = error /\ payload' = file.payload
    /\ UNCHANGED <<file, points, values, labels, min_val, max_val,
                   val_range, coords, idx, path_d, svg_lines, i, m, output,
                   stdout>>

GetPoints ==
    /\ pc = "points"
    /\ IF "points" \in payload.keys
       THEN pc' = "values" /\ error' = error /\ points' = payload.points
       ELSE Raise("KeyError") /\ points' = points
    /\ UNCHANGED <<file, payload, values, labels, min_val, max_val,
                   val_range, coords, idx, path_d, svg_lines, i, m, output,
                   stdout>>

ExtractValues ==
    /\ pc = "values"
    /\ IF \A k \in 1..Len(points) : "totalValue" \in DOMAIN points[k]
       THEN /\ pc' = "labels" /\ error' = error
            /\ values' = [k \in 1..Len(points) |-> points[k].totalValue]
       ELSE Raise("KeyError") /\ values' = values
    /\ UNCHANGED <<file, payload, points, labels, min_val, max_val,
                   val_range, coords, idx, path_d, svg_lines, i, m, output,
                   stdout>>

ExtractLabels ==
    /\ pc = "labels"
    /\ IF \A k \in 1..Len(points) : "label" \in DOMAIN points[k]
       THEN /\ pc' = "minmax" /\ error' = error
            /\ labels' = [k \in 1..Len(points) |-> points[k].label]
       ELSE Raise("KeyError") /\ labels' = labels
    /\ UNCHANGED <<file, payload, points, values, min_val, max_val,
                   val_range, coords, idx, path_d, svg_lines, i, m, output,
                   stdout>>

\* variant: min(values, default=0), max(values, default=0)
ComputeRange_default ==
    /\ pc = "minmax"
    /\ pc' = "coords"
    /\ min_val' = IF Len(values) = 0 THEN 0 ELSE MinOf(values)
    /\ max_val' = IF Len(values) = 0 THEN 0 ELSE MaxOf(values)
    /\ val_range' = IF Len(values) = 0 THEN 1
                    ELSE ValRange(MinOf(values), MaxOf(values))
    /\ UNCHANGED <<file, payload, points, values, labels, coords, idx,
                   path_d, svg_lines, i, m, output, stdout, error>>

\* ---- lines 19-21 ----
ComputeRange ==
    /\ pc = "minmax"
    /\ IF Len(values) = 0
       THEN /\ Raise("ValueError")
            /\ UNCHANGED <<min_val, max_val, val_range>>
       ELSE /\ pc' = "coords" /\ error' = error
            /\ min_val' = MinOf(values)
            /\ max_val' = MaxOf(values)
            /\ val_range' = ValRange(MinOf(values), MaxOf(values))
    /\ UNCHANGED <<file, payload, points, values, labels, coords, idx,
                   path_d, svg_lines, i, m, output, stdout>>

\* ---- lines 24-27: one iteration of the coords loop ----
\* a true division whose divisor is 0 raises ZeroDivisionError
ScalePoint ==
    /\ pc = "coords"
    /\ idx < Len(values)
    /\ IF (Len(values) > 1 /\ Len(values) - 1 = 0) \/ val_range = 0
       THEN /\ Raise("ZeroDivisionError")
            /\ UNCHANGED <<coords, idx>>
       ELSE /\ coords' = CoordsAppend(coords,
                            [x |-> ScaleX(idx, Len(values)),
                             y |-> ScaleY(values[idx + 1], min_val, val_range)])
            /\ idx' = idx + 1
            /\ UNCHANGED <<pc, error>>
    /\ UNCHANGED <<file, payload, points, values, labels, min_val,
                   max_val, val_range, path_d, svg_lines, i, m, output,
                   stdout>>

\* ---- line 30 ----
BuildPath ==
    /\ pc = "coords"
    /\ idx = Len(values)
    /\ path_d' = PathD(coords)
    /\ pc' = "header"
    /\ UNCHANGED <<file, payload, points, values, labels, min_val, max_val,
                   val_range, coords, idx, svg_lines, i, m, output, stdout,
                   error>>

\* ---- lines 33-37 ----
StartSvg ==
    /\ pc = "header"
    /\ svg_lines' = SvgHeader
    /\ pc' = "grid"
    /\ UNCHANGED <<file, payload, points, values, labels, min_val, max_val,
                   val_range, coords, idx, path_d, i, m, output, stdout,
                   error>>

\* ---- lines 39-41: one iteration of range(5) ----
AddGridLine ==
    /\ pc = "grid"
    /\ i < GridLines
    /\ svg_lines' = Append(svg_lines, GridLine(i))
    /\ i' = i + 1
    /\ UNCHANGED <<file, pc, payload, points, values, labels, min_val,
                   max_val, val_range, coords, idx, path_d, m, output,
                   stdout, error>>

\* ---- lines 42-43 ----
AddPath ==
    /\ pc = "grid"
    /\ i = GridLines
    /\ svg_lines' = svg_lines \o <<[tag |-> "/g"], [tag |-> "path", d |-> path_d]>>
    /\ pc' = "markers"
    /\ UNCHANGED <<file, payload, points, values, labels, min_val, max_val,
                   val_range, coords, idx, path_d, i, m, output, stdout,
                   error>>

\* zip() stops at the shortest of its arguments
ZipLen == LET a == Len(coords)
              b == Len(labels)
              c == Len(values)
              ab == IF a < b THEN a ELSE b
          IN  IF ab < c THEN ab ELSE c

\* ---- lines 45-48: one iteration over zip(coords, labels, values) ----
AddMarker ==
    /\ pc = "markers"
    /\ m < ZipLen
    /\ svg_lines' = svg_lines \o MarkerLines(coords[m + 1], labels[m + 1], values[m + 1])
    /\ m' = m + 1
    /\ UNCHANGED <<file, pc, payload, points, values, labels, min_val,
                   max_val, val_range, coords, idx, path_d, i, output,
                   stdout, error>>

\* ---- lines 50-51 ----
CloseSvg ==
    /\ pc = "markers"
    /\ m = ZipLen
    /\ svg_lines' = svg_lines \o SvgFooter
    /\ pc' = "write"
    /\ UNCHANGED <<file, payload, points, values, labels, min_val, max_val,
                   val_range, coords, idx, path_d, i, m, output, stdout,
                   error>>

\* ---- line 53: OUTPUT_PATH.write_text('\n'.join(svg_lines)) ----
WriteOutput ==
    /\ pc = "write"
    /\ output' = <<svg_lines>>
    /\ pc' = "print"
    /\ UNCHANGED <<file, payload, points, values, labels, min_val, max_val,
                   val_range, coords, idx, path_d, svg_lines, i, m, stdout,
                   error>>

\* line 53 when the output file cannot be opened for writing
WriteFails ==
    /\ pc = "write"
    /\ Raise("OSError")
    /\ UNCHANGED <<file, payload, points, values, labels, min_val, max_val,
                   val_range, coords, idx, path_d, svg_lines, i, m, output,
                   stdout>>

\* ---- line 54 ----
PrintSaved ==
    /\ pc = "print"
    /\ stdout' = Append(stdout, "Saved chart to")
    /\ pc' = "done"
    /\ UNCHANGED <<file, payload, points, values, labels, min_val, max_val,
                   val_range, coords, idx, path_d, svg_lines, i, m, output,
                   error>>

Next ==
    \/ OpenFile
    \/ LoadJson
    \/ GetPoints
    \/ ExtractValues
    \/ ExtractLabels
    \/ ComputeRange
    \/ ScalePoint
    \/ BuildPath
    \/ StartSvg
    \/ AddGridLine
    \/ AddPath
    \/ AddMarker
    \/ CloseSvg
    \/ WriteOutput
    \/ WriteFails
    \/ PrintSaved

Spec == Init /\ [][Next]_vars
\* ======================= properties =======================

N == Len(values)
Whole(c) == [n |-> c, d |-> 1]
AllEqual == \A a, b \in 1..N : values[a] = values[b]
IsMax(k) == \A l \in 1..N : values[l] <= values[k]
IsMin(k) == \A l \in 1..N : values[k] <= values[l]
AfterCoords == pc \in {"header", "grid", "markers", "write", "print", "done"}
AfterMarkers == pc \in {"write", "print", "done"}
WithTag(t) == SelectSeq(svg_lines, LAMBDA e : e.tag = t)

\* C1 as stated: when all values of a non-empty series are equal, every
\* scaled y-coordinate is padding + usable_height/2 (the vertical middle).
C1_MidLine ==
    AllEqual =>
        \A k \in 1..Len(coords) :
            2 * coords[k].y.n = (2 * padding + usable_height) * coords[k].y.d

\* C1 amended: when all values of a non-empty series are equal, every scaled
\* y-coordinate is padding + usable_height (the bottom of the usable area).
C1_FlatLineAtBottom ==
    AllEqual =>
        \A k \in 1..Len(coords) :
            coords[k].y.n = (padding + usable_height) * coords[k].y.d

C1_Witness ==
    /\ pc = "done"
    /\ N >= 2
    /\ AllEqual
    /\ Len(coords) = N

\* C2: a run that fails on its input (file missing, JSON malformed, a key
\* missing, empty points) never writes the output file and never prints the
\* confirmation; the output is written only after all coordinates and all
\* SVG lines are computed, and the confirmation only after the output.
InputFailures == {"FileNotFoundError", "JSONDecodeError", "KeyError", "ValueError"}

BadInput ==
    \/ file.status # "json"
    \/ "points" \notin file.payload.keys
    \/ file.payload.points = <<>>
    \/ \E k \in 1..Len(file.payload.points) :
          {"label", "totalValue"} \ DOMAIN file.payload.points[k] # {}

C2_NoPartialOutput ==
    /\ (error \in InputFailures \/ BadInput) => (output = <<>> /\ stdout = <<>>)
    /\ output # <<>> =>
          /\ Len(coords) = Len(points)
          /\ output = <<svg_lines>>
          /\ Len(svg_lines) = 3 + GridLines + 2 + 3 * Len(points) + 2
          /\ svg_lines[Len(svg_lines)].tag = "/svg"
    /\ stdout # <<>> => output # <<>>

C2_Witness ==
    /\ pc = "aborted"
    /\ error = "KeyError"
    /\ Len(values) >= 2
    /\ output = <<>>

\* C3: n points give n scaled points and n circle markers, and the k-th
\* scaled point, marker, x-axis label and value label come from the k-th
\* input point.
C3_CountAndOrder ==
    /\ AfterCoords => Len(coords) = Len(points)
    /\ AfterCoords =>
          \A k \in 1..Len(points) :
              /\ coords[k].x = ScaleX(k - 1, Len(points))
              /\ coords[k].y = ScaleY(points[k].totalValue, min_val, val_range)
    /\ AfterMarkers =>
          /\ Len(WithTag("circle")) = Len(points)
          /\ Len(WithTag("xlabel")) = Len(points)
          /\ Len(WithTag("vlabel")) = Len(points)
          /\ \A k \in 1..Len(points) :
                /\ WithTag("circle")[k].cx = Fmt2(coords[k].x)
                /\ WithTag("circle")[k].cy = Fmt2(coords[k].y)
                /\ WithTag("xlabel")[k].text = points[k].label
                /\ WithTag("xlabel")[k].x = WithTag("circle")[k].cx
                /\ WithTag("vlabel")[k].text = FmtThousands(points[k].totalValue)
                /\ WithTag("vlabel")[k].x = WithTag("circle")[k].cx

C3_Witness ==
    /\ pc = "done"
    /\ Len(points) = 3
    /\ points[1].totalValue < points[3].totalValue
    /\ points[3].totalValue < points[2].totalValue
    /\ points[1].label # points[2].label

C5_XPlacement ==
    /\ padding = 60
    /\ \A k \in 1..Len(coords) :
          /\ N > 1 =>
                coords[k].x.n * (N - 1) =
                    (padding * (N - 1) + usable_width * (k - 1)) * coords[k].x.d
          /\ N = 1 => 2 * coords[k].x.n = (2 * padding + usable_width) * coords[k].x.d
          /\ (N > 1 /\ k = 1) => coords[k].x = Whole(padding)
          /\ (N > 1 /\ k = N) => coords[k].x = Whole(width - padding)
    /\ \A k, j \in 1..Len(coords) : k < j => RatLess(coords[k].x, coords[j].x)

C5_Witness ==
    /\ pc = "done"
    /\ N = 3
    /\ Len(coords) = 3
    /\ coords[2].x = Whole(450)

\* C7 as stated: an empty points array makes the run fail with a
\* division-by-zero fault.
EmptySeries ==
    /\ file.status = "json"
    /\ "points" \in file.payload.keys
    /\ file.payload.points = <<>>

C7_DivisionByZero ==
    (EmptySeries /\ pc = "aborted") => error = "ZeroDivisionError"

\* C7 amended: an empty points array makes the run fail at min() with a
\* ValueError (empty sequence), before any division is evaluated; the run
\* never gets past that statement.
C7_EmptyFailsAtMin ==
    EmptySeries =>
        /\ pc \in {"open", "load", "points", "values", "labels", "minmax", "aborted"}
        /\ pc = "aborted" => error = "ValueError"
        /\ output = <<>>

C7_Witness ==
    /\ EmptySeries
    /\ pc = "aborted"
    /\ error = "ValueError"

\* C8: the path is one move-to at the first scaled point followed by n - 1
\* line-to segments through the remaining scaled points in order (a lone
\* move-to for n = 1); its vertices are the circle markers' coordinates.
PathCount(c) == Len(SelectSeq(path_d, LAMBDA t : t.kind = c))

C8_PathShape ==
    /\ AfterCoords =>
          /\ Len(path_d) = 2 * N
          /\ PathCount("M") = 1
          /\ PathCount("L") = N - 1
          /\ PathCount("pt") = N
          /\ path_d[1].kind = "M"
          /\ \A k \in 1..N :
                /\ path_d[2 * k].kind = "pt"
                /\ path_d[2 * k].x = Fmt2(coords[k].x)
                /\ path_d[2 * k].y = Fmt2(coords[k].y)
                /\ k > 1 => path_d[2 * k - 1].kind = "L"
    /\ AfterMarkers =>
          /\ Len(WithTag("path")) = 1
          /\ WithTag("path")[1].d = path_d
          /\ \A k \in 1..N :
                /\ path_d[2 * k].x = WithTag("circle")[k].cx
                /\ path_d[2 * k].y = WithTag("circle")[k].cy

C8_Witness ==
    /\ pc = "done"
    /\ N = 3
    /\ PathCount("L") = 2
    /\ path_d[2].x = 100 * padding

\* C9: whatever the series, exactly 5 horizontal grid lines are emitted, at
\* y = padding + usable_height * i / 4 for i = 0..4: evenly spaced, from
\* the top of the usable area to its bottom, each spanning x from padding
\* to width - padding.
AfterGrid == pc \in {"markers", "write", "print", "done"}

C9_GridLines ==
    /\ pc = "grid" => Len(WithTag("line")) = i
    /\ AfterGrid =>
          /\ Len(WithTag("line")) = 5
          /\ \A j \in 0..4 :
                /\ 4 * WithTag("line")[j + 1].y1 =
                      100 * (4 * padding + usable_height * j)
                /\ WithTag("line")[j + 1].y2 = WithTag("line")[j + 1].y1
                /\ WithTag("line")[j + 1].x1 = padding
                /\ WithTag("line")[j + 1].x2 = width - padding
          /\ WithTag("line")[1].y1 = 100 * padding
          /\ WithTag("line")[5].y1 = 100 * (padding + usable_height)
          /\ \A j \in 1..3 :
                WithTag("line")[j + 1].y1 - WithTag("line")[j].y1 =
                    WithTag("line")[j + 2].y1 - WithTag("line")[j + 1].y1

C9_Witness ==
    /\ pc = "done"
    /\ Len(WithTag("line")) = 5
    /\ WithTag("line")[3].y1 = 21000

====
